---- MODULE Spec2Model ----
(***************************************************************************)
(* AuthService (src/services/auth.service.js): register, authenticate,     *)
(* userToClaims and claimsToUser, run as concurrent async calls against a   *)
(* Neo4j store holding (:User) nodes and the bcrypt / jsonwebtoken          *)
(* libraries.  Every await of the source is a step boundary.                *)
(***************************************************************************)
EXTENDS Integers, Sequences, FiniteSets, TLC

\* ------------------------------------------------------------------ bounds

\* Number of calls (register or authenticate) that may be in flight together.
MaxCalls == 2

Calls == 1..MaxCalls

Emails == {"a@x.com", "b@x.com"}

Passwords == {"secret123", "wrong"}

Names == {"Alice", "Bob"}

\* randomUuid() in the call p: a value no other call draws.
randomUuid(p) == <<"uuid", p>>

\* The salt bcrypt draws for the hash of call p: a value no other call draws.
genSalt(p) == <<"salt", p>>

\* Values of the iat field jsonwebtoken stamps on a payload.
IssuedAt == {"t1"}

\* ------------------------------------------------------- JavaScript values

Undefined == "undefined"

None == [typeof |-> "none"]

\* A call not made yet.
NoCall == [op |-> "none"]

\* obj.key, undefined when the key is absent.
Get(obj, key) == IF key \in DOMAIN obj THEN obj[key] ELSE Undefined

\* { ...a, ...b }: the keys of both, b's value where both have the key.
Spread(a, b) == [k \in DOMAIN a \cup DOMAIN b |-> IF k \in DOMAIN b THEN b[k] ELSE a[k]]

\* const { [key]: _, ...rest } = obj
Omit(obj, key) == [k \in DOMAIN obj \ {key} |-> obj[k]]

JsFalse == [typeof |-> "boolean", bool |-> FALSE]

JsObject(props) == [typeof |-> "object", props |-> props]

Pending == [kind |-> "pending"]

Return(v) == [kind |-> "return", value |-> v]

Throw(e) == [kind |-> "throw", error |-> e]

\* --------------------------------------------------------------- constants

JWT_SECRET == "jwt-secret"

SALT_ROUNDS == 10

ConstraintValidationFailed == "Neo.ClientError.Schema.ConstraintValidationFailed"

ServiceUnavailable == "ServiceUnavailable"

\* -------------------------------------------------------------- the errors

Neo4jError(code) == [name |-> "Neo4jError", code |-> code]

\* Errors bcrypt and jsonwebtoken raise: plain Errors, no code property.
ToolkitError(what) == [name |-> "Error", message |-> what]

ValidationError(message, details) ==
    [name |-> "ValidationError", message |-> message, details |-> details]

\* ------------------------------------------------------------- bcrypt, jwt

\* bcrypt's hash: the cost and the salt are kept in the hash beside the digest.
hash(plain, rounds, salt) ==
    [cost |-> rounds, salt |-> salt, digest |-> <<plain, salt, rounds>>]

\* compare, were it to draw a salt of its own instead of the stored one.
compareFreshSalt(plain, encryptedPassword) ==
    hash(plain, encryptedPassword.cost, <<"salt", -1>>) = encryptedPassword

\* bcrypt's compare: hashes the attempt with the stored salt and cost.
compare(plain, encryptedPassword) ==
    hash(plain, encryptedPassword.cost, encryptedPassword.salt) = encryptedPassword

\* jwt.sign: the payload gets an iat, and is signed with the secret.
sign(payload, secret, iat) ==
    LET body == Spread(payload, [iat |-> iat])
    IN  [payload |-> body, signature |-> <<body, secret>>]

\* jwt.verify: the payload when the signature is the secret's.
verify(token, secret) ==
    IF token.signature = <<token.payload, secret>>
    THEN [valid |-> TRUE, payload |-> token.payload]
    ELSE [valid |-> FALSE]

\* ------------------------------------------------------ claims translation

\* The claims, were every safe property signed (as jwt.sign(claims) of the
\* earlier authenticate did).
userToClaimsAll(user) == user

userToClaims(user) ==
    [sub |-> Get(user, "userId"), userId |-> Get(user, "userId"), name |-> Get(user, "name")]

\* claimsToUser, were the spread written after userId: claims.userId wins.
claimsToUserKeep(claims) == Spread([userId |-> Get(claims, "sub")], claims)

claimsToUser(claims) == Spread(claims, [userId |-> Get(claims, "sub")])

\* const { password, ...safeProperties } = node.properties
safeProperties(properties) == Omit(properties, "password")

\* { ...safeProperties, token: jwt.sign(this.userToClaims(safeProperties), JWT_SECRET) }
userWithToken(properties, iat) ==
    Spread(safeProperties(properties),
           [token |-> sign(userToClaims(safeProperties(properties)), JWT_SECRET, iat)])

\* The catch clause, were it to rethrow every error as it is.
registerCatchRethrow(e, email) == e

\* The catch clause, were it to report every error as a taken email.
registerCatchAll(e, email) ==
    ValidationError(<<"An account already exists with the email address ", email>>,
                    [email |-> "Email address already taken"])

\* The catch clause of register: what is thrown for a caught error e.
registerCatch(e, email) ==
    IF Get(e, "code") = ConstraintValidationFailed
    THEN ValidationError(<<"An account already exists with the email address ", email>>,
                         [email |-> "Email address already taken"])
    ELSE e

\* ------------------------------------------------------------------- state

VARIABLES
    users,      \* the (:User) nodes of the store: their property maps
    pc,         \* where each call stands
    call,       \* each call's operation and arguments
    encrypted,  \* register: the hashed password
    session,    \* each call's session: "none", "open" or "closed"
    res,        \* the records the store returned to the call
    raised,     \* the error the store or a library raised in the call
    outcome,    \* register: what the try/catch decided, held while finally runs
    result,     \* what the call gave its caller
    writes,     \* how many times the call ran executeWrite
    created,    \* the node the call's write created
    taken,      \* whether the call's email had a User when the call was made
    tpc,        \* claims translation: the step reached
    tuser,      \* claims translation: the user record given to userToClaims
    tclaims,    \* claims translation: the claims given to claimsToUser
    tresult     \* claims translation: what claimsToUser returned

callVars == <<users, pc, call, encrypted, session, res, raised, outcome, result, writes,
              created, taken>>

claimVars == <<tpc, tuser, tclaims, tresult>>

vars == <<users, pc, call, encrypted, session, res, raised, outcome, result, writes,
          created, taken, tpc, tuser, tclaims, tresult>>

\* The User nodes with the given email.
Matching(email) == {u \in users : u.email = email}

\* The orders in which the store may return a set of nodes.
RECURSIVE Orders(_)
Orders(S) ==
    IF S = {} THEN {<<>>}
    ELSE UNION {{<<u>> \o rest : rest \in Orders(S \ {u})} : u \in S}

\* The store, were the constraint never created.
UserEmailUnconstrained == FALSE

\* CREATE CONSTRAINT UserEmailUnique ... REQUIRE user.email IS UNIQUE
UserEmailUnique == TRUE

\* A User registered before this process started: the store outlives the service.
SeedUser ==
    [userId |-> <<"uuid", 0>>, email |-> "a@x.com",
     password |-> hash("secret123", SALT_ROUNDS, <<"salt", 0>>), name |-> "Alice"]

\* The user records and the claims the translation functions are applied to.
TUserIds == {"uuid-1", "uuid-2"}

UserRecords ==
    LET base == [userId : TUserIds, name : Names]
    IN  base
        \cup {Spread(u, [email |-> e]) : u \in base, e \in Emails}
        \cup {Spread(u, [email |-> e, password |-> "hashed"]) : u \in base, e \in Emails}

ClaimsRecords ==
    LET base == [sub : TUserIds, name : Names]
    IN  base
        \cup {Spread(c, [userId |-> i]) : c \in base, i \in TUserIds}
        \cup {Spread(c, [userId |-> i, iat |-> t]) : c \in base, i \in TUserIds, t \in IssuedAt}

InitCalls ==
    /\ users \in {{}, {SeedUser}}
    /\ pc = [p \in Calls |-> "idle"]
    /\ call = [p \in Calls |-> NoCall]
    /\ encrypted = [p \in Calls |-> None]
    /\ session = [p \in Calls |-> "none"]
    /\ res = [p \in Calls |-> <<>>]
    /\ raised = [p \in Calls |-> None]
    /\ outcome = [p \in Calls |-> Pending]
    /\ result = [p \in Calls |-> Pending]
    /\ writes = [p \in Calls |-> 0]
    /\ created = [p \in Calls |-> None]
    /\ taken = [p \in Calls |-> FALSE]

InitClaims ==
    /\ tpc = "idle"
    /\ tuser = None
    /\ tclaims = None
    /\ tresult = None

Init == InitCalls /\ InitClaims

\* --------------------------------------------------------------- register

\* register is called: bcrypt's hash is started and awaited (line 41).
register(p, email, plainPassword, name) ==
    /\ pc[p] = "idle"
    \* Calls are numbered in the order they are made.
    /\ \A q \in Calls : q < p => pc[q] # "idle"
    /\ call' = [call EXCEPT ![p] = [op |-> "register", email |-> email,
                                    password |-> plainPassword, name |-> name]]
    /\ taken' = [taken EXCEPT ![p] = Matching(email) # {}]
    /\ pc' = [pc EXCEPT ![p] = "r_hash"]
    /\ UNCHANGED <<users, encrypted, session, res, raised, outcome, result, writes, created>>
    /\ UNCHANGED claimVars

\* hash resolves: the session is opened and executeWrite is called (lines 58-73);
\* or hash rejects, and register rejects before any session exists.
registerHashed(p) ==
    /\ pc[p] = "r_hash"
    /\ \/ /\ encrypted' = [encrypted EXCEPT
                            ![p] = hash(call[p].password, SALT_ROUNDS, genSalt(p))]
          /\ session' = [session EXCEPT ![p] = "open"]
          /\ writes' = [writes EXCEPT ![p] = @ + 1]
          /\ pc' = [pc EXCEPT ![p] = "r_write"]
          /\ UNCHANGED <<raised, result>>
       \/ /\ raised' = [raised EXCEPT ![p] = ToolkitError("hash")]
          /\ result' = [result EXCEPT ![p] = Throw(ToolkitError("hash"))]
          /\ pc' = [pc EXCEPT ![p] = "done"]
          /\ UNCHANGED <<encrypted, session, writes>>
    /\ UNCHANGED <<users, call, res, outcome, created, taken>>
    /\ UNCHANGED claimVars

\* The store runs the write transaction: CREATE (u:User {...}) RETURN u.
executeWrite(p) ==
    /\ pc[p] = "r_write"
    /\ \/ /\ ~(UserEmailUnique /\ Matching(call[p].email) # {})
          /\ LET node == [userId |-> randomUuid(p), email |-> call[p].email,
                          password |-> encrypted[p], name |-> call[p].name]
             IN  /\ users' = users \cup {node}
                 /\ res' = [res EXCEPT ![p] = <<node>>]
                 /\ created' = [created EXCEPT ![p] = node]
          /\ pc' = [pc EXCEPT ![p] = "r_then"]
          /\ UNCHANGED raised
       \/ /\ UserEmailUnique /\ Matching(call[p].email) # {}
          /\ raised' = [raised EXCEPT ![p] = Neo4jError(ConstraintValidationFailed)]
          /\ pc' = [pc EXCEPT ![p] = "r_catch"]
          /\ UNCHANGED <<users, res, created>>
       \/ /\ raised' = [raised EXCEPT ![p] = Neo4jError(ServiceUnavailable)]
          /\ pc' = [pc EXCEPT ![p] = "r_catch"]
          /\ UNCHANGED <<users, res, created>>
    /\ UNCHANGED <<call, encrypted, session, outcome, result, writes, taken>>
    /\ UNCHANGED claimVars

\* executeWrite resolved: lines 74-82.  jwt.sign may throw, which the catch
\* clause then handles like any other error of the try block.
registerThen(p) ==
    /\ pc[p] = "r_then"
    /\ \/ /\ \E iat \in IssuedAt :
                outcome' = [outcome EXCEPT
                    ![p] = Return(JsObject(userWithToken(res[p][1], iat)))]
          /\ UNCHANGED raised
       \/ /\ raised' = [raised EXCEPT ![p] = ToolkitError("sign")]
          /\ outcome' = [outcome EXCEPT
                ![p] = Throw(registerCatch(ToolkitError("sign"), call[p].email))]
    /\ pc' = [pc EXCEPT ![p] = "r_finally"]
    /\ UNCHANGED <<users, call, encrypted, session, res, result, writes, created, taken>>
    /\ UNCHANGED claimVars

\* executeWrite rejected: the catch clause, lines 83-92.
registerRejected(p) ==
    /\ pc[p] = "r_catch"
    /\ outcome' = [outcome EXCEPT ![p] = Throw(registerCatch(raised[p], call[p].email))]
    /\ pc' = [pc EXCEPT ![p] = "r_finally"]
    /\ UNCHANGED <<users, call, encrypted, session, res, raised, result, writes, created,
                   taken>>
    /\ UNCHANGED claimVars

\* register's exit, were there no finally clause closing the session.
registerFinallyNoClose(p) ==
    /\ pc[p] = "r_finally"
    /\ result' = [result EXCEPT ![p] = outcome[p]]
    /\ pc' = [pc EXCEPT ![p] = "done"]
    /\ UNCHANGED <<users, call, encrypted, session, res, raised, outcome, writes, created,
                   taken>>
    /\ UNCHANGED claimVars

\* finally: the session is closed, then register returns or throws (lines 94-96).
registerFinally(p) ==
    /\ pc[p] = "r_finally"
    /\ session' = [session EXCEPT ![p] = "closed"]
    /\ result' = [result EXCEPT ![p] = outcome[p]]
    /\ pc' = [pc EXCEPT ![p] = "done"]
    /\ UNCHANGED <<users, call, encrypted, res, raised, outcome, writes, created, taken>>
    /\ UNCHANGED claimVars

\* ----------------------------------------------------------- authenticate

\* authenticate is called: the session is opened and executeRead is called
\* (lines 124-132).
authenticate(p, email, unencryptedPassword) ==
    /\ pc[p] = "idle"
    \* Calls are numbered in the order they are made.
    /\ \A q \in Calls : q < p => pc[q] # "idle"
    /\ call' = [call EXCEPT ![p] = [op |-> "authenticate", email |-> email,
                                    password |-> unencryptedPassword]]
    /\ taken' = [taken EXCEPT ![p] = Matching(email) # {}]
    /\ session' = [session EXCEPT ![p] = "open"]
    /\ pc' = [pc EXCEPT ![p] = "a_read"]
    /\ UNCHANGED <<users, encrypted, res, raised, outcome, result, writes, created>>
    /\ UNCHANGED claimVars

\* The store runs the read transaction: MATCH (u:User {email: $email}) RETURN u.
\* When it rejects, authenticate rejects at line 127: nothing after it runs.
executeRead(p) ==
    /\ pc[p] = "a_read"
    /\ \/ /\ \E records \in Orders(Matching(call[p].email)) :
                res' = [res EXCEPT ![p] = records]
          /\ pc' = [pc EXCEPT ![p] = "a_close"]
          /\ UNCHANGED <<raised, result>>
       \/ /\ raised' = [raised EXCEPT ![p] = Neo4jError(ServiceUnavailable)]
          /\ result' = [result EXCEPT ![p] = Throw(Neo4jError(ServiceUnavailable))]
          /\ pc' = [pc EXCEPT ![p] = "done"]
          /\ UNCHANGED res
    /\ UNCHANGED <<users, call, encrypted, session, outcome, writes, created, taken>>
    /\ UNCHANGED claimVars

\* authenticate, were the session closed only after the comparison.
authenticateClosedLate(p) ==
    /\ pc[p] = "a_close"
    /\ IF Len(res[p]) = 0
       THEN /\ result' = [result EXCEPT ![p] = Return(JsFalse)]
            /\ session' = [session EXCEPT ![p] = "closed"]
            /\ pc' = [pc EXCEPT ![p] = "done"]
       ELSE /\ pc' = [pc EXCEPT ![p] = "a_compare"]
            /\ UNCHANGED <<result, session>>
    /\ UNCHANGED <<users, call, encrypted, res, raised, outcome, writes, created, taken>>
    /\ UNCHANGED claimVars

\* authenticate, were the check of res.records.length missing: records[0] of
\* no records is undefined, and reading it throws a TypeError.
authenticateClosedNoCheck(p) ==
    /\ pc[p] = "a_close"
    /\ session' = [session EXCEPT ![p] = "closed"]
    /\ IF Len(res[p]) = 0
       THEN /\ result' = [result EXCEPT
                  ![p] = Throw([name |-> "TypeError", message |-> "records[0] is undefined"])]
            /\ pc' = [pc EXCEPT ![p] = "done"]
       ELSE /\ pc' = [pc EXCEPT ![p] = "a_compare"]
            /\ UNCHANGED result
    /\ UNCHANGED <<users, call, encrypted, res, raised, outcome, writes, created, taken>>
    /\ UNCHANGED claimVars

\* session.close() resolves (line 135); then lines 138-146: false when there
\* is no record, otherwise bcrypt's compare is started and awaited.
authenticateClosed(p) ==
    /\ pc[p] = "a_close"
    /\ session' = [session EXCEPT ![p] = "closed"]
    /\ IF Len(res[p]) = 0
       THEN /\ result' = [result EXCEPT ![p] = Return(JsFalse)]
            /\ pc' = [pc EXCEPT ![p] = "done"]
       ELSE /\ pc' = [pc EXCEPT ![p] = "a_compare"]
            /\ UNCHANGED result
    /\ UNCHANGED <<users, call, encrypted, res, raised, outcome, writes, created, taken>>
    /\ UNCHANGED claimVars

\* compare resolves: lines 146-158.
authenticateCompared(p) ==
    /\ pc[p] = "a_compare"
    /\ IF ~compare(call[p].password, res[p][1].password)
       THEN /\ result' = [result EXCEPT ![p] = Return(JsFalse)]
            /\ UNCHANGED raised
       ELSE \/ /\ \E iat \in IssuedAt :
                     result' = [result EXCEPT
                         ![p] = Return(JsObject(userWithToken(res[p][1], iat)))]
               /\ UNCHANGED raised
            \/ /\ raised' = [raised EXCEPT ![p] = ToolkitError("sign")]
               /\ result' = [result EXCEPT ![p] = Throw(ToolkitError("sign"))]
    /\ pc' = [pc EXCEPT ![p] = "done"]
    /\ UNCHANGED <<users, call, encrypted, session, res, outcome, writes, created, taken>>
    /\ UNCHANGED claimVars

\* ----------------------------------------------------- claims translation

\* userToClaims is applied to a user record (lines 184-188).
applyUserToClaims ==
    /\ tpc = "start"
    /\ tclaims' = userToClaims(tuser)
    /\ tpc' = "claims"
    /\ UNCHANGED <<tuser, tresult>>
    /\ UNCHANGED callVars

\* claimsToUser is applied (lines 198-203): to the claims userToClaims made, or
\* to claims decoded from a token by the caller.
applyClaimsToUser ==
    /\ tpc \in {"start", "claims"}
    /\ tresult' = claimsToUser(tclaims)
    /\ tpc' = IF tpc = "claims" THEN "roundtrip" ELSE "decoded"
    /\ UNCHANGED <<tuser, tclaims>>
    /\ UNCHANGED callVars

InitTranslate ==
    /\ InitCalls
    /\ tpc = "start"
    /\ tuser \in UserRecords
    /\ tclaims \in ClaimsRecords
    /\ tresult = None

NextTranslate == applyUserToClaims \/ applyClaimsToUser

SpecTranslate == InitTranslate /\ [][NextTranslate]_vars

\* ------------------------------------------------------------------- Spec

Next ==
    \E p \in Calls :
        \/ \E email \in Emails, plainPassword \in Passwords, name \in Names :
              register(p, email, plainPassword, name)
        \/ registerHashed(p)
        \/ executeWrite(p)
        \/ registerThen(p)
        \/ registerRejected(p)
        \/ registerFinally(p)
        \/ \E email \in Emails, unencryptedPassword \in Passwords :
              authenticate(p, email, unencryptedPassword)
        \/ executeRead(p)
        \/ authenticateClosed(p)
        \/ authenticateCompared(p)

Spec == Init /\ [][Next]_vars

\* ----------------------------------------------------------------- claims

IsRegister(p) == call[p].op = "register"

IsAuthenticate(p) == call[p].op = "authenticate"

Done(p) == pc[p] = "done"

\* The call met a failure of the store or of a library other than the
\* uniqueness constraint's.
Faulted(p) == raised[p] # None /\ raised[p] # Neo4jError(ConstraintValidationFailed)

Returned(p) == result[p].kind = "return"

ReturnedUser(p) == Returned(p) /\ result[p].value.typeof = "object"

Thrown(p) == result[p].kind = "throw"

IsEmailTaken(e) ==
    /\ e.name = "ValidationError"
    /\ "email" \in DOMAIN e.details
    /\ e.details.email = "Email address already taken"

\* The password the User u was registered with is plain.
RegisteredWith(u, plain) ==
    \/ u = SeedUser /\ plain = "secret123"
    \/ \E q \in Calls : IsRegister(q) /\ created[q] = u /\ call[q].password = plain

\* C1: an authenticate call made with the email and the password of a User
\* already registered, and that met no store or library failure, returns a
\* record (never false) whose userId, email and name are the User's, and the
\* ones register returned, and which has no password field.
C1_RegisterThenAuthenticate ==
    \A p \in Calls : \A u \in users :
        (/\ Done(p) /\ IsAuthenticate(p) /\ ~Faulted(p) /\ taken[p]
         /\ u.email = call[p].email
         /\ RegisteredWith(u, call[p].password))
        => /\ ReturnedUser(p)
           /\ LET props == result[p].value.props
              IN  /\ {"userId", "email", "name"} \subseteq DOMAIN props
                  /\ props.userId = u.userId
                  /\ props.email = u.email
                  /\ props.name = u.name
                  /\ "password" \notin DOMAIN props
                  /\ \A q \in Calls :
                        (IsRegister(q) /\ Done(q) /\ ReturnedUser(q) /\ created[q] = u)
                        => /\ result[q].value.props.userId = props.userId
                           /\ result[q].value.props.email = props.email
                           /\ result[q].value.props.name = props.name

C1_Witness ==
    \E p, q \in Calls :
        /\ IsRegister(q) /\ Done(q) /\ ReturnedUser(q)
        /\ IsAuthenticate(p) /\ Done(p) /\ taken[p]
        /\ call[p].email = call[q].email /\ call[p].password = call[q].password
        /\ ReturnedUser(p)
        /\ result[p].value.props.userId = result[q].value.props.userId

\* C2: a register call made with an email that already has a User never
\* returns a user, creates no User, and, when the store answered the write,
\* throws the ValidationError whose details hold
\* email: 'Email address already taken'.
C2_DuplicateEmailRejected ==
    \A p \in Calls :
        (Done(p) /\ IsRegister(p) /\ taken[p])
        => /\ Thrown(p)
           /\ created[p] = None
           /\ ~Faulted(p) => IsEmailTaken(result[p].error)

C2_Witness ==
    \E p \in Calls :
        /\ Done(p) /\ IsRegister(p) /\ taken[p] /\ ~Faulted(p)
        /\ IsEmailTaken(result[p].error)
        /\ created[p] = None

\* C3: an authenticate call whose read succeeded returns the value false,
\* and throws nothing, when no User has the email and when the password does
\* not match the stored hash: the same value in both cases, holding no token.
C3_FalseOnMismatch ==
    \A p \in Calls :
        (/\ Done(p) /\ IsAuthenticate(p) /\ raised[p] = None
         /\ \/ ~taken[p] /\ Matching(call[p].email) = {}
            \/ \E u \in users : /\ u.email = call[p].email
                                /\ taken[p]
                                /\ ~RegisteredWith(u, call[p].password))
        => result[p] = Return(JsFalse)

C3_Witness ==
    \E p, q \in Calls :
        /\ Done(p) /\ IsAuthenticate(p) /\ Matching(call[p].email) = {}
        /\ Done(q) /\ IsAuthenticate(q) /\ taken[q]
        /\ \E u \in users : u.email = call[q].email /\ ~RegisteredWith(u, call[q].password)
        /\ result[p] = Return(JsFalse)
        /\ result[q] = result[p]

\* C4: a register call that has finished, by returning a user, by throwing
\* the ValidationError or by throwing any other error, has no open session:
\* the session it opened is closed.
C4_RegisterClosesSession ==
    \A p \in Calls :
        (Done(p) /\ IsRegister(p))
        => /\ session[p] # "open"
           /\ writes[p] > 0 => session[p] = "closed"

C4_Witness ==
    \E p, q \in Calls :
        /\ Done(p) /\ IsRegister(p) /\ ReturnedUser(p) /\ session[p] = "closed"
        /\ Done(q) /\ IsRegister(q) /\ Thrown(q) /\ session[q] = "closed"

\* C5: an authenticate call that has finished, by returning or by throwing,
\* has no open session.
C5_AuthenticateClosesSession ==
    \A p \in Calls : (Done(p) /\ IsAuthenticate(p)) => session[p] # "open"

\* C6: a failure that is not the uniqueness constraint's reaches the caller
\* as the error that was raised: register throws that same error, after one
\* executeWrite and never as a ValidationError; authenticate throws the read's
\* error and never returns false for it.
C6_ErrorsPropagateUnchanged ==
    \A p \in Calls :
        (Done(p) /\ Faulted(p))
        => /\ result[p] = Throw(raised[p])
           /\ result[p].error.name # "ValidationError"
           /\ IsRegister(p) => writes[p] <= 1
           /\ (IsRegister(p) /\ raised[p] = Neo4jError(ServiceUnavailable)) => writes[p] = 1

C6_Witness ==
    \E p, q \in Calls :
        /\ Done(p) /\ IsRegister(p) /\ raised[p] = Neo4jError(ServiceUnavailable)
        /\ result[p] = Throw(raised[p]) /\ writes[p] = 1
        /\ Done(q) /\ IsAuthenticate(q) /\ raised[q] = Neo4jError(ServiceUnavailable)
        /\ result[q] = Throw(raised[q])

\* C7: whatever the interleaving of the calls, no two Users of the store
\* share an email; of the register calls made with one email at most one
\* returns a user, and every other one that the store answered throws the
\* ValidationError for email.
C7_OneUserPerEmail ==
    /\ \A u, v \in users : u.email = v.email => u = v
    /\ \A p, q \in Calls :
          (/\ p # q /\ IsRegister(p) /\ IsRegister(q) /\ call[p].email = call[q].email
           /\ Done(p) /\ Done(q) /\ ReturnedUser(p))
          => /\ Thrown(q)
             /\ ~Faulted(q) => IsEmailTaken(result[q].error)

C7_Witness ==
    \E p, q \in Calls :
        /\ p # q /\ IsRegister(p) /\ IsRegister(q) /\ call[p].email = call[q].email
        /\ ~taken[p] /\ ~taken[q]
        /\ Done(p) /\ Done(q)
        /\ ReturnedUser(p)
        /\ IsEmailTaken(result[q].error)

\* C8: userToClaims(u) is exactly {sub: u.userId, userId: u.userId, name:
\* u.name}; claimsToUser(userToClaims(u)) has u's userId and name; and
\* claimsToUser(c) has userId c.sub, whatever userId c held.
C8_ClaimsRoundTrip ==
    /\ tpc \in {"claims", "roundtrip"}
       => /\ DOMAIN tclaims = {"sub", "userId", "name"}
          /\ tclaims.sub = tuser.userId
          /\ tclaims.userId = tuser.userId
          /\ tclaims.name = tuser.name
    /\ tpc = "roundtrip"
       => /\ tresult.userId = tuser.userId
          /\ tresult.name = tuser.name
    /\ tpc \in {"roundtrip", "decoded"}
       => /\ tresult.userId = tclaims.sub
          /\ \A k \in DOMAIN tclaims \ {"userId"} : tresult[k] = tclaims[k]

C8_Witness ==
    \/ /\ tpc = "roundtrip"
       /\ "email" \in DOMAIN tuser
       /\ tresult.userId = tuser.userId
    \/ /\ tpc = "decoded"
       /\ "userId" \in DOMAIN tclaims
       /\ tclaims.userId # tclaims.sub
       /\ tresult.userId = tclaims.sub

\* C9: the token of every record register or authenticate returns verifies
\* to claims whose sub and userId are the record's userId and whose name is
\* the record's name, with no password and no email; the record holds every
\* property of the stored User but password, and the token.
C9_TokenClaims ==
    \A p \in Calls :
        (Done(p) /\ ReturnedUser(p))
        => LET props == result[p].value.props
               node == res[p][1]
               decoded == verify(props.token, JWT_SECRET)
           IN  /\ node \in users
               /\ decoded.valid
               /\ {"sub", "userId", "name"} \subseteq DOMAIN decoded.payload
               /\ decoded.payload.sub = node.userId
               /\ decoded.payload.userId = node.userId
               /\ decoded.payload.name = node.name
               /\ "password" \notin DOMAIN decoded.payload
               /\ "email" \notin DOMAIN decoded.payload
               /\ DOMAIN props = (DOMAIN node \ {"password"}) \cup {"token"}
               /\ \A k \in DOMAIN node \ {"password"} : props[k] = node[k]

C9_Witness ==
    \E p, q \in Calls :
        /\ Done(p) /\ IsRegister(p) /\ ReturnedUser(p)
        /\ Done(q) /\ IsAuthenticate(q) /\ ReturnedUser(q)
        /\ verify(result[q].value.props.token, JWT_SECRET).valid

\* C10: while authenticate compares the passwords its session is already
\* closed, and it is closed when authenticate returns false.
C10_ClosedBeforeCompare ==
    \A p \in Calls :
        /\ pc[p] = "a_compare" => session[p] = "closed"
        /\ (Done(p) /\ IsAuthenticate(p) /\ result[p] = Return(JsFalse))
           => session[p] = "closed"

C10_Witness ==
    \E p, q \in Calls :
        /\ pc[p] = "a_compare" /\ session[p] = "closed"
        /\ Done(q) /\ IsAuthenticate(q) /\ result[q] = Return(JsFalse)
        /\ Len(res[q]) = 0

====
